---- MODULE Spec2Model ----
(***************************************************************************)
(* A model of the quantitative core of riskcontrol:                        *)
(*   models/portfolio.py   PortfolioAnalytics (normaliser, metrics,        *)
(*                         the three optimiser entry points)               *)
(*   models/simulation.py  MonteCarloPlanner (constructor, simulator,      *)
(*                         orchestrator)                                   *)
(*   models/data_extraction.py  DataExtraction (download with retries,     *)
(*                         the CSV cache)                                  *)
(*                                                                         *)
(* Numbers.  A float is modelled by an exact rational <<n, d>> in lowest   *)
(* terms with d > 0, extended by the three IEEE specials the code can      *)
(* produce: NaN = <<0,0>>, +inf = <<1,0>>, -inf = <<-1,0>>.  Rounding is   *)
(* not modelled.  A square root is kept as its radicand (record "rad"),    *)
(* so that volatilities are compared exactly.                              *)
(***************************************************************************)
EXTENDS Integers, Sequences, FiniteSets, TLC

VARIABLES
    optOp,        \* the PortfolioAnalytics operation last called ("" before any)
    optArgs,      \* its arguments
    solverLog,    \* what scipy's minimize returned, one entry per sub-problem
                  \* (in the frontier, with the sub-problem's target return)
    optOut,       \* its outcome: [raised, value]
    planner,      \* the MonteCarloPlanner object (its four attributes)
    simOp,        \* the planner method last called ("" before any)
    simArgs,      \* its arguments
    simOut,       \* its outcome
    cache,        \* the cache CSV file: whether it exists, and its columns
    extOp,        \* the DataExtraction method last called ("" before any)
    extArgs,      \* its arguments
    extOut        \* its outcome: [raised, value, events]

optVars == <<optOp, optArgs, solverLog, optOut>>
simVars == <<planner, simOp, simArgs, simOut>>
extVars == <<cache, extOp, extArgs, extOut>>
vars == <<optOp, optArgs, solverLog, optOut, planner, simOp, simArgs, simOut,
          cache, extOp, extArgs, extOut>>

----------------------------------------------------------------------------
(* Extended rational arithmetic (numpy float semantics, exact).            *)

Abs(i) == IF i < 0 THEN -i ELSE i

Sgn(i) == IF i < 0 THEN -1 ELSE IF i > 0 THEN 1 ELSE 0

RECURSIVE GCD(_, _)
GCD(a, b) == IF b = 0 THEN a ELSE GCD(b, a % b)

NaN == <<0, 0>>
PInf == <<1, 0>>
NInf == <<-1, 0>>
Zero == <<0, 1>>
One == <<1, 1>>

IsNaN(a) == a = NaN
Fin(a) == a[2] # 0

\* n/d in lowest terms, d # 0
RNorm(n, d) ==
    LET g == GCD(Abs(n), Abs(d))
    IN  IF d < 0 THEN <<-(n \div g), (-d) \div g>> ELSE <<n \div g, d \div g>>

R(n, d) == RNorm(n, d)

RNeg(a) == <<-a[1], a[2]>>

RAdd(a, b) ==
    IF IsNaN(a) \/ IsNaN(b) THEN NaN
    ELSE IF ~Fin(a) THEN (IF ~Fin(b) /\ b # a THEN NaN ELSE a)
    ELSE IF ~Fin(b) THEN b
    ELSE LET g == GCD(a[2], b[2])
         IN  RNorm(a[1] * (b[2] \div g) + b[1] * (a[2] \div g), (a[2] \div g) * b[2])

RSub(a, b) == RAdd(a, RNeg(b))

RMul(a, b) ==
    IF IsNaN(a) \/ IsNaN(b) THEN NaN
    ELSE IF ~Fin(a) \/ ~Fin(b)
         THEN (IF a[1] = 0 \/ b[1] = 0 THEN NaN ELSE <<Sgn(a[1]) * Sgn(b[1]), 0>>)
    ELSE LET g1 == GCD(Abs(a[1]), b[2])
             g2 == GCD(Abs(b[1]), a[2])
         IN  RNorm((a[1] \div g1) * (b[1] \div g2), (a[2] \div g2) * (b[2] \div g1))

\* numpy true division: x/0 is +-inf, 0/0 is nan (a warning, never an exception)
RDiv(a, b) ==
    IF IsNaN(a) \/ IsNaN(b) THEN NaN
    ELSE IF ~Fin(b) THEN (IF ~Fin(a) THEN NaN ELSE Zero)
    ELSE IF b[1] = 0 THEN (IF a[1] = 0 THEN NaN ELSE <<Sgn(a[1]), 0>>)
    ELSE IF ~Fin(a) THEN <<Sgn(a[1]) * Sgn(b[1]), 0>>
    ELSE RMul(a, RNorm(b[2], b[1]))

\* comparisons: every comparison with NaN is false
RLt(a, b) ==
    IF IsNaN(a) \/ IsNaN(b) THEN FALSE
    ELSE IF Fin(a) /\ Fin(b)
         THEN LET g == GCD(a[2], b[2])
              IN  IF a[1] \div a[2] # b[1] \div b[2]
                  THEN a[1] \div a[2] < b[1] \div b[2]
                  ELSE (a[1] % a[2]) * (b[2] \div g) < (b[1] % b[2]) * (a[2] \div g)
    ELSE IF a = b THEN FALSE
    ELSE a = NInf \/ b = PInf

REq(a, b) == ~IsNaN(a) /\ ~IsNaN(b) /\ a = b
RLe(a, b) == RLt(a, b) \/ REq(a, b)
RGe(a, b) == RLe(b, a)

RAbs(a) == IF IsNaN(a) THEN NaN ELSE <<Abs(a[1]), a[2]>>

\* np.maximum: NaN propagates
RMax(a, b) == IF IsNaN(a) \/ IsNaN(b) THEN NaN ELSE IF RLt(a, b) THEN b ELSE a

\* b ** k for an integer k >= 0 (0 ** 0 is 1)
RECURSIVE RPow(_, _)
RPow(b, k) == IF k = 0 THEN One ELSE RMul(b, RPow(b, k - 1))

RECURSIVE RSum(_)
RSum(w) == IF w = <<>> THEN Zero ELSE RAdd(Head(w), RSum(Tail(w)))

\* np.dot of two vectors of one length
RECURSIVE Dot(_, _)
Dot(u, v) == IF u = <<>> THEN Zero ELSE RAdd(RMul(Head(u), Head(v)), Dot(Tail(u), Tail(v)))

\* w.T @ cov @ w
QuadForm(w, cov) == Dot(w, [i \in 1..Len(w) |-> Dot(cov[i], w)])

\* np.sqrt, kept as its radicand: NaN for a negative (or NaN) argument
Sqrt(q) == [rad |-> IF IsNaN(q) \/ RLt(q, Zero) THEN NaN ELSE q]

SqrtIsNaN(v) == IsNaN(v.rad)
SqrtLe(u, v) == RLe(u.rad, v.rad)
SqrtLt(u, v) == RLt(u.rad, v.rad)

\* an operation's outcome: a value, or the exception it raised
Ok(v) == [raised |-> "", value |-> v]
Raise(e) == [raised |-> e, value |-> <<>>]

----------------------------------------------------------------------------
(* models/portfolio.py                                                     *)

\* np.full(n, 1.0 / n): the Python division raises for n = 0
Uniform(n) == [i \in 1..n |-> R(1, n)]

\* DataFrame.mean(): the column means; NaN for a table without rows (0 / 0)
column_means(returns) ==
    [j \in 1..returns.columns |->
        RDiv(RSum([i \in 1..Len(returns.rows) |-> returns.rows[i][j]]),
             R(Len(returns.rows), 1))]

\* DataFrame.cov(): the sample covariance (divisor T - 1); pandas gives NaN
\* for every entry when fewer than two rows are there
sample_cov(returns) ==
    LET T == Len(returns.rows)
        m == column_means(returns)
    IN  [j \in 1..returns.columns |->
            [k \in 1..returns.columns |->
                IF T < 2 THEN NaN
                ELSE RDiv(RSum([i \in 1..T |->
                                  RMul(RSub(returns.rows[i][j], m[j]),
                                       RSub(returns.rows[i][k], m[k]))]),
                          R(T - 1, 1))]]

\* annualized_inputs: (mu, cov); returns is [columns, rows], one row per
\* observation.  Nothing is checked and nothing is raised.
annualized_inputs(returns, periods) ==
    Ok([mu |-> [j \in 1..returns.columns |->
                   RMul(column_means(returns)[j], R(periods, 1))],
        cov |-> [j \in 1..returns.columns |->
                   [k \in 1..returns.columns |->
                       RMul(sample_cov(returns)[j][k], R(periods, 1))]]])

\* mutant: the weights are returned as given
normalize_weights_unscaled(weights) ==
    IF Len(weights) = 0 THEN Raise("ZeroDivisionError") ELSE Ok(weights)

normalize_weights(weights) ==
    LET s == RSum(weights)
    IN  IF s = Zero
        THEN (IF Len(weights) = 0 THEN Raise("ZeroDivisionError")
              ELSE Ok([i \in 1..Len(weights) |-> R(1, Len(weights))]))
        ELSE Ok([i \in 1..Len(weights) |-> RDiv(weights[i], s)])

portfolio_return(weights, mu) == Dot(weights, mu)

portfolio_volatility(weights, cov) == Sqrt(QuadForm(weights, cov))

\* x / sqrt(v.rad) for a non-zero root, kept exactly as its sign and its
\* square; NaN (sgn 0, sq NaN) when either operand is NaN
SqrtQuot(x, v) ==
    LET sq == IF SqrtIsNaN(v) THEN NaN ELSE RDiv(RMul(x, x), v.rad)
    IN  [sgn |-> IF IsNaN(sq) THEN 0 ELSE Sgn(x[1]), sq |-> sq]

\* the float 0.0 as a Sharpe ratio
SharpeZero == [sgn |-> 0, sq |-> Zero]

\* mutant: no "if vol == 0" guard; the Python float division raises
portfolio_sharpe_unguarded(weights, mu, cov, rf) ==
    LET ret == portfolio_return(weights, mu)
        vol == portfolio_volatility(weights, cov)
    IN  IF vol.rad = Zero THEN Raise("ZeroDivisionError")
        ELSE Ok(SqrtQuot(RSub(ret, rf), vol))

\* portfolio_sharpe: "if vol == 0: return 0.0", else (ret - rf) / vol
portfolio_sharpe(weights, mu, cov, rf) ==
    LET ret == portfolio_return(weights, mu)
        vol == portfolio_volatility(weights, cov)
    IN  IF vol.rad = Zero THEN Ok(SharpeZero)
        ELSE Ok(SqrtQuot(RSub(ret, rf), vol))

\* bounds=None leaves the solver unbounded: tuple(bounds for ...) if bounds else None
DefaultBounds == [lo |-> Zero, hi |-> One]
NoBounds == [lo |-> NInf, hi |-> PInf]

\* The points scipy's SLSQP may stop at (two assets).  The fourth is the
\* start x0 itself (the solver converges where it started when x0 is already
\* optimal); the last carries a sum drift of -1/100, far coarser than the
\* real solver's.
SolverPoints ==
    { <<R(1, 1), R(0, 1)>>, <<R(3, 5), R(2, 5)>>, <<R(-1, 2), R(3, 2)>>,
      <<R(1, 2), R(1, 2)>>, <<R(1, 2), R(49, 100)>> }

SolverDrift == R(1, 100)

\* where a solve that did not converge may have stopped (its last iterate)
StalledPoints == { <<R(7, 10), R(3, 10)>> }

\* scipy.optimize.minimize(objective, x0, method='SLSQP', bounds, constraints):
\* every result it may return.  A successful result lies within the bounds
\* and meets sum(w) = 1 up to the drift; nothing more is assumed of it (it
\* need not be optimal).  A failed result carries the last iterate.
minimize(x0, bnds) ==
    { [success |-> FALSE, x |-> p] : p \in {q \in StalledPoints : Len(q) = Len(x0)} } \cup
    { [success |-> TRUE, x |-> p] : p \in
        { q \in SolverPoints :
            /\ Len(q) = Len(x0)
            /\ \A i \in 1..Len(q) : RLe(bnds.lo, q[i]) /\ RLe(q[i], bnds.hi)
            /\ RLe(RAbs(RSub(RSum(q), One)), SolverDrift) } }

\* the solver results of one call solving k sub-problems; none when the
\* call fails before its first minimize (n = 0)
SolverRuns(mu, bounds, k) ==
    IF Len(mu) = 0 THEN { <<>> }
    ELSE [1..k -> minimize(Uniform(Len(mu)), bounds)]

\* mutant: a non-converged solve reports the solver's last iterate
solved_weights_keep(x0, res) == normalize_weights(res.x)

\* "if not res.success: normalize_weights(x0) else normalize_weights(res.x)"
solved_weights(x0, res) ==
    IF ~res.success THEN normalize_weights(x0) ELSE normalize_weights(res.x)

optimize_max_sharpe(mu, cov, rf, bounds, log) ==
    LET n == Len(mu)
    IN  IF n = 0 THEN Raise("ZeroDivisionError")
        ELSE solved_weights(Uniform(n), log[1])

optimize_min_vol(mu, cov, bounds, log) ==
    LET n == Len(mu)
    IN  IF n = 0 THEN Raise("ZeroDivisionError")
        ELSE solved_weights(Uniform(n), log[1])

RECURSIVE SeqMin(_)
SeqMin(s) ==
    IF Len(s) = 1 THEN s[1]
    ELSE LET m == SeqMin(Tail(s)) IN IF RLt(Head(s), m) THEN Head(s) ELSE m

RECURSIVE SeqMax(_)
SeqMax(s) ==
    IF Len(s) = 1 THEN s[1]
    ELSE LET m == SeqMax(Tail(s)) IN IF RLt(m, Head(s)) THEN Head(s) ELSE m

\* np.linspace(a, b, num) for num >= 1
linspace(a, b, num) ==
    [i \in 1..num |->
        IF num = 1 THEN a
        ELSE RAdd(a, RMul(R(i - 1, num - 1), RSub(b, a)))]

\* the target returns swept by efficient_frontier (n >= 1)
frontier_targets(mu, points) ==
    LET r_min == SeqMin(mu)
        r_max == SeqMax(mu)
        degenerate == RLt(RAbs(RSub(r_max, r_min)), R(1, 1000000000))
    IN  linspace(IF degenerate THEN RMul(r_min, R(99, 100)) ELSE r_min,
                 IF degenerate THEN RMul(r_max, R(101, 100)) ELSE r_max,
                 points)

\* one row of the frontier table: 'Return', 'Volatility' and the weights
frontier_row(w, mu, cov) ==
    [Return |-> portfolio_return(w, mu),
     Volatility |-> portfolio_volatility(w, cov),
     weights |-> w]

\* mutant: the sweep stops at the first sub-problem that did not converge
frontier_rows_abort(mu, cov, points, log) ==
    LET failed == {i \in 1..points : ~log[i].success}
        last == IF failed = {} THEN points
                ELSE (CHOOSE i \in failed : \A j \in failed : i <= j) - 1
    IN  [i \in 1..last |->
            frontier_row(solved_weights(Uniform(Len(mu)), log[i]).value, mu, cov)]

\* the loop over the targets: rows, in the order of the targets
frontier_rows(mu, cov, points, log) ==
    [i \in 1..points |->
        frontier_row(solved_weights(Uniform(Len(mu)), log[i]).value, mu, cov)]

\* mutant: the table is returned in the order of the targets
sort_values_unsorted(rows) == { rows }

\* df.sort_values('Volatility').reset_index(drop=True): ascending, NaN last.
\* The default sort (quicksort) is not stable: rows of equal volatility may
\* come out in any order.
sort_values(rows) ==
    { [i \in 1..Len(rows) |-> rows[p[i]]] : p \in
        { q \in Permutations(1..Len(rows)) :
            \A i, j \in 1..Len(rows) :
                i < j =>
                    LET a == rows[q[i]].Volatility
                        b == rows[q[j]].Volatility
                    IN  /\ SqrtIsNaN(a) => SqrtIsNaN(b)
                        /\ (~SqrtIsNaN(a) /\ ~SqrtIsNaN(b)) => SqrtLe(a, b) } }

\* every outcome of efficient_frontier
efficient_frontier(mu, cov, points, bounds, log) ==
    IF Len(mu) = 0 THEN { Raise("ZeroDivisionError") }
    ELSE IF points = 0 THEN { Raise("KeyError") }
    ELSE { Ok(df) : df \in sort_values(frontier_rows(mu, cov, points, log)) }

----------------------------------------------------------------------------
(* models/simulation.py                                                    *)

\* Optional[...] arguments: None, or a value
None == <<>>
Some(x) == <<x>>

NoPlanner ==
    [constructed |-> FALSE, weights |-> <<>>, expected_returns |-> <<>>,
     covariance |-> <<>>, inflation |-> Zero]

\* mutant: no sum is taken for zero
isclose_zero_never(a) == FALSE

\* np.isclose(a, 0.0): abs(a) <= atol (1e-8), the relative term being zero
isclose_zero(a) == RLe(RAbs(a), R(1, 100000000))

\* weights.reindex(expected_returns.index): NaN where a label is missing
reindex(weights, index) ==
    [i \in 1..Len(index) |->
        IF \E k \in 1..Len(weights.index) : weights.index[k] = index[i]
        THEN weights.values[CHOOSE k \in 1..Len(weights.index) : weights.index[k] = index[i]]
        ELSE NaN]

\* an exception whose message lists assets (value: the assets listed)
RaiseNaming(e, assets) == [raised |-> e, value |-> assets]

\* MonteCarloPlanner.__init__: the planner built, or the error raised.
\* expected_returns is [index, values]; weights is [kind, index, values] with
\* kind "Series" (label-indexed) or "array" (positional).
planner_init(expected_returns, covariance, weights, inflation) ==
    LET aligned == IF weights.kind = "Series"
                   THEN reindex(weights, expected_returns.index)
                   ELSE weights.values
        bad == IF weights.kind = "Series"
               THEN \E i \in 1..Len(aligned) : IsNaN(aligned[i])
               ELSE Len(aligned) # Len(expected_returns.index)
        total_weight == RSum(aligned)
        missing == SelectSeq(expected_returns.index,
                             LAMBDA a : \A k \in 1..Len(weights.index) : weights.index[k] # a)
    IN  IF bad THEN RaiseNaming("ValueError",
                                IF weights.kind = "Series" THEN missing ELSE <<>>)
        ELSE IF isclose_zero(total_weight) THEN RaiseNaming("ValueError", <<>>)
        ELSE Ok([constructed |-> TRUE,
                 weights |-> [i \in 1..Len(aligned) |-> RDiv(aligned[i], total_weight)],
                 expected_returns |-> expected_returns.values,
                 covariance |-> covariance,
                 inflation |-> inflation])

\* mutant: n_sims is not checked
sim_invalid_late(initial_wealth, annual_contribution, horizon_years, n_sims) ==
    \/ horizon_years <= 0
    \/ RLt(initial_wealth, Zero)
    \/ RLt(annual_contribution, Zero)

\* the argument checks of simulate_wealth_paths (the four raises)
sim_invalid(initial_wealth, annual_contribution, horizon_years, n_sims) ==
    \/ horizon_years <= 0
    \/ RLt(initial_wealth, Zero)
    \/ RLt(annual_contribution, Zero)
    \/ n_sims <= 0

\* mutant: the portfolio return is not floored
clip_floor_none(x) == x

\* np.clip(x, -0.99, None)
clip_floor(x) == IF RLt(x, R(-99, 100)) THEN R(-99, 100) ELSE x

\* portfolio_returns: tensordot with the weights, then the floor; (years, sims)
portfolio_returns(self, asset_returns) ==
    [y \in 1..Len(asset_returns) |->
        [s \in 1..Len(asset_returns[y]) |->
            clip_floor(Dot(asset_returns[y][s], self.weights))]]

\* adjusted_returns = ((1.0 + portfolio_returns) / inflation_adjustment) - 1.0
adjusted_returns(self, asset_returns) ==
    LET pr == portfolio_returns(self, asset_returns)
        inflation_adjustment == RAdd(One, self.inflation)
    IN  [y \in 1..Len(pr) |->
            [s \in 1..Len(pr[y]) |->
                RSub(RDiv(RAdd(One, pr[y][s]), inflation_adjustment), One)]]

\* annual_contribution * (1 + contribution_growth) ** np.arange(horizon_years)
contrib_schedule(annual_contribution, contribution_growth, horizon_years) ==
    LET g == IF contribution_growth = None THEN Zero ELSE contribution_growth[1]
    IN  [y \in 1..horizon_years |-> RMul(annual_contribution, RPow(RAdd(One, g), y - 1))]

\* mutant: the year's contribution is added after the year's return
year_step_after(w, contrib, adjusted) ==
    RAdd(RMul(RMax(w, Zero), RAdd(One, adjusted)), contrib)

\* one pass of the loop body for one path: the value assigned to wealth[year + 1]
year_step(w, contrib, adjusted) ==
    RMul(RAdd(RMax(w, Zero), contrib), RAdd(One, adjusted))

\* the values the loop assigns along one path: wealth[0], ..., wealth[H]
RECURSIVE wealth_loop(_, _, _, _)
wealth_loop(path, contrib, adjusted, s) ==
    LET year == Len(path)
    IN  IF year > Len(contrib) THEN path
        ELSE wealth_loop(Append(path, year_step(path[year], contrib[year],
                                                adjusted[year][s])),
                         contrib, adjusted, s)

wealth_path(initial_wealth, contrib, adjusted, s) ==
    wealth_loop(<<initial_wealth>>, contrib, adjusted, s)

\* wealth = np.maximum(wealth, 0.0), entry by entry
final_clamp(w) == RMax(w, Zero)

\* simulate_wealth_paths: [raised, value (the matrix returned, sims x years+1),
\* assigned (the values the loop assigned), drawn (the asset returns drawn),
\* sampled (the generator was created and the returns were drawn), invoked
\* (the simulator was entered)]
simulate_wealth_paths(self, initial_wealth, annual_contribution, horizon_years, n_sims, contribution_growth, asset_returns) ==
    IF sim_invalid(initial_wealth, annual_contribution, horizon_years, n_sims)
    THEN [raised |-> "ValueError", value |-> <<>>, assigned |-> <<>>,
          drawn |-> <<>>, sampled |-> FALSE, invoked |-> TRUE]
    ELSE LET contrib == contrib_schedule(annual_contribution, contribution_growth,
                                         horizon_years)
             adjusted == adjusted_returns(self, asset_returns)
             assigned == [s \in 1..n_sims |->
                             wealth_path(initial_wealth, contrib, adjusted, s)]
         IN  [raised |-> "",
              value |-> [s \in 1..n_sims |->
                            [c \in 1..(horizon_years + 1) |-> final_clamp(assigned[s][c])]],
              assigned |-> assigned, drawn |-> asset_returns,
              sampled |-> TRUE, invoked |-> TRUE]

\* the entries of a vector in ascending order (no NaN among them)
RECURSIVE SortAsc(_)
SortAsc(v) ==
    IF v = <<>> THEN <<>>
    ELSE LET m == CHOOSE i \in 1..Len(v) : \A j \in 1..Len(v) : RLe(v[i], v[j])
         IN  <<v[m]>> \o SortAsc([k \in 1..(Len(v) - 1) |-> IF k < m THEN v[k] ELSE v[k + 1]])

\* np.percentile(values, q) for one q in 0..100 and at least one value: linear
\* interpolation between the two nearest order statistics (numpy's _lerp);
\* NaN when a value is NaN
percentile(values, q) ==
    IF \E i \in 1..Len(values) : IsNaN(values[i]) THEN NaN
    ELSE LET sorted == SortAsc(values)
             pos == q * (Len(values) - 1)
             previous == sorted[(pos \div 100) + 1]
             next == sorted[IF (pos \div 100) + 2 <= Len(values)
                            THEN (pos \div 100) + 2 ELSE (pos \div 100) + 1]
             gamma == R(pos % 100, 100)
             diff_b_a == RSub(next, previous)
         IN  IF RGe(gamma, R(1, 2))
             THEN RSub(next, RMul(diff_b_a, RSub(One, gamma)))
             ELSE RAdd(previous, RMul(diff_b_a, gamma))

\* the column labels f"p{int(p)}"
pct_labels(percentiles) == [k \in 1..Len(percentiles) |-> "p" \o ToString(percentiles[k])]

\* column c (1-based) of a matrix of rows
column(matrix, c) == [s \in 1..Len(matrix) |-> matrix[s][c]]

DefaultPercentiles == <<10, 25, 50, 75, 90>>
FinalPercentiles == <<5, 10, 25, 50, 75, 90, 95>>

\* wealth_percentiles: a table with one row per column of wealth_paths and
\* one column per percentile; assigning an index of another length raises
wealth_percentiles(wealth_paths, percentiles, index) ==
    LET years == Len(wealth_paths[1])
    IN  IF index # None /\ Len(index[1]) # years THEN Raise("ValueError")
        ELSE Ok([index |-> IF index = None THEN [i \in 1..years |-> i - 1] ELSE index[1],
                 columns |-> pct_labels(percentiles),
                 data |-> [c \in 1..years |->
                             [k \in 1..Len(percentiles) |->
                                 percentile(column(wealth_paths, c), percentiles[k])]]])

\* final_distribution: the percentiles of the last column, labelled
final_distribution(wealth_paths, percentiles) ==
    LET final_values == column(wealth_paths, Len(wealth_paths[1]))
    IN  [index |-> pct_labels(percentiles),
         values |-> [k \in 1..Len(percentiles) |-> percentile(final_values, percentiles[k])]]

\* mutant: the first column (the initial wealth) is compared with the target
probability_of_target_initial(wealth_paths, target) ==
    LET final_values == column(wealth_paths, 1)
    IN  IF RLe(target, Zero) THEN One
        ELSE R(Cardinality({s \in 1..Len(final_values) : RGe(final_values[s], target)}),
               Len(final_values))

\* probability_of_target: 1.0 for target <= 0, else np.mean(final_values >= target)
probability_of_target(wealth_paths, target) ==
    LET final_values == column(wealth_paths, Len(wealth_paths[1]))
    IN  IF RLe(target, Zero) THEN One
        ELSE R(Cardinality({s \in 1..Len(final_values) : RGe(final_values[s], target)}),
               Len(final_values))

\* mutant: np.arange(current_age, retirement_age)
age_axis_exclusive(current_age, retirement_age) ==
    [i \in 1..(retirement_age - current_age) |-> current_age + i - 1]

\* np.arange(current_age, retirement_age + 1)
age_axis(current_age, retirement_age) ==
    [i \in 1..(retirement_age - current_age + 1) |-> current_age + i - 1]

\* mutant: the withdrawal rate is not checked
run_invalid_age_only(current_age, retirement_age, withdrawal_rate) ==
    retirement_age <= current_age

\* the two argument checks of run_simulation
run_invalid(current_age, retirement_age, withdrawal_rate) ==
    \/ retirement_age <= current_age
    \/ RLe(withdrawal_rate, Zero)

\* "if inflation is not None: self.inflation = float(inflation)"
run_inflation(self, inflation) ==
    IF inflation # None THEN [self EXCEPT !.inflation = inflation[1]] ELSE self

\* run_simulation: the planner afterwards (self) and the outcome (out)
run_simulation(self, current_age, retirement_age, initial_wealth, annual_contribution, desired_retirement_income, withdrawal_rate, inflation, n_sims, contribution_growth, asset_returns) ==
    IF run_invalid(current_age, retirement_age, withdrawal_rate)
    THEN [self |-> self,
          out |-> [raised |-> "ValueError", value |-> <<>>, assigned |-> <<>>,
                   drawn |-> <<>>, sampled |-> FALSE, invoked |-> FALSE]]
    ELSE LET horizon_years == retirement_age - current_age
             self1 == run_inflation(self, inflation)
             sim == simulate_wealth_paths(self1, initial_wealth, annual_contribution,
                                          horizon_years, n_sims, contribution_growth,
                                          asset_returns)
             ages == age_axis(current_age, retirement_age)
             percentiles == wealth_percentiles(sim.value, DefaultPercentiles, Some(ages))
             target_wealth == IF RLt(Zero, withdrawal_rate)
                              THEN RDiv(desired_retirement_income, withdrawal_rate)
                              ELSE Zero
         IN  [self |-> self1,
              out |-> IF sim.raised # "" THEN sim
                      ELSE IF percentiles.raised # ""
                      THEN [sim EXCEPT !.raised = percentiles.raised, !.value = <<>>]
                      ELSE [sim EXCEPT !.value =
                                [wealth_paths |-> sim.value, ages |-> ages,
                                 percentiles |-> percentiles.value,
                                 final_distribution |->
                                     final_distribution(sim.value, FinalPercentiles),
                                 probability_success |->
                                     probability_of_target(sim.value, target_wealth),
                                 target_wealth |-> target_wealth]]]

----------------------------------------------------------------------------
(* models/data_extraction.py                                               *)
(* A table is modelled by the sequence of its column labels (one column    *)
(* per ticker); the prices are not modelled.  What the network and the     *)
(* disk do is an input: one outcome per download attempt.                  *)

NoFile == [exists |-> FALSE, columns |-> <<>>]
FileWith(columns) == [exists |-> TRUE, columns |-> columns]

\* before any call: nothing raised, nothing returned, nothing done
NoCall == [raised |-> "", value |-> None, events |-> <<>>]

\* an effect of a call, in the order it happened
Event(what, tickers) == [ev |-> what, tickers |-> tickers]

\* is x an entry of the sequence seq
In(x, seq) == \E k \in 1..Len(seq) : seq[k] = x

\* what yf.download(...)["Close"] can hold for the tickers asked: a column
\* per ticker in the library's order; for a single ticker, library versions
\* with flat columns give the one series named "Close"
Downloaded(tickers) ==
    IF tickers = <<>> THEN { <<>> }
    ELSE { [k \in 1..Len(tickers) |-> tickers[q[k]]] : q \in Permutations(1..Len(tickers)) }
         \cup (IF Len(tickers) = 1 THEN { <<"Close">> } ELSE {})

\* _download_prices: yf.download(...)["Close"], or an exception
download_prices(tickers, outcome) ==
    IF outcome.kind = "download_error" THEN Raise("Exception") ELSE Ok(outcome.columns)

\* mutant: the last failure is followed by a wait as well, then the error
after_failure_sleep_always(tickers, file, retries, attempt, events) ==
    IF attempt = retries - 1
    THEN [raised |-> "RuntimeError", value |-> None, file |-> file,
          events |-> Append(events, Event("sleep", <<>>)), again |-> FALSE]
    ELSE [raised |-> "", value |-> None, file |-> file,
          events |-> Append(events, Event("sleep", <<>>)), again |-> TRUE]

\* the except clause of download_all: RuntimeError after the last attempt,
\* else time.sleep(wait) and the next attempt
after_failure(tickers, file, retries, attempt, events) ==
    IF attempt = retries - 1
    THEN [raised |-> "RuntimeError", value |-> None, file |-> file,
          events |-> events, again |-> FALSE]
    ELSE [raised |-> "", value |-> None, file |-> file,
          events |-> Append(events, Event("sleep", <<>>)), again |-> TRUE]

\* "for attempt in range(retries)": the attempts from number attempt on.  An
\* attempt downloads, drops empty rows, writes the CSV and returns; any
\* exception in it (download or write) is caught.  A failed write leaves the
\* file as it was.  With the attempts used up without a return (retries <= 0)
\* the method falls off the loop and returns None.
RECURSIVE download_loop(_, _, _, _, _, _)
download_loop(tickers, file, retries, outcomes, attempt, events) ==
    IF attempt >= retries
    THEN [raised |-> "", value |-> None, file |-> file, events |-> events]
    ELSE LET df == download_prices(tickers, outcomes[attempt + 1])
             tried == Append(events, Event("download", tickers))
         IN  IF df.raised = "" /\ outcomes[attempt + 1].kind = "ok"
             THEN [raised |-> "", value |-> Some(df.value), file |-> FileWith(df.value),
                   events |-> Append(tried, Event("to_csv", df.value))]
             ELSE LET failed == after_failure(tickers, file, retries, attempt, tried)
                  IN  IF failed.again
                      THEN download_loop(tickers, file, retries, outcomes, attempt + 1,
                                         failed.events)
                      ELSE [raised |-> failed.raised, value |-> None, file |-> file,
                            events |-> failed.events]

\* download_all: [raised, value (the table returned, or None), file (the
\* cache afterwards), events]
download_all(tickers_list, file, retries, outcomes) ==
    download_loop(tickers_list, file, retries, outcomes, 0, <<>>)

\* mutant: every requested ticker is downloaded again
missing_tickers_all(tickers_list, columns) == tickers_list

\* [ticker for ticker in tickers_list if ticker not in df.columns]
missing_tickers(tickers_list, columns) ==
    SelectSeq(tickers_list, LAMBDA t : ~In(t, columns))

\* read_and_update_csv: one download of the missing tickers, not retried; its
\* exceptions and those of to_csv propagate
read_and_update_csv(tickers_list, file, outcomes) ==
    LET missing == missing_tickers(tickers_list, file.columns)
        read == <<Event("read_csv", file.columns)>>
    IN  IF missing = <<>>
        THEN [raised |-> "", value |-> Some(file.columns), file |-> file, events |-> read]
        ELSE LET new == download_prices(missing, outcomes[1])
                 tried == Append(read, Event("download", missing))
             IN  IF new.raised # ""
                 THEN [raised |-> new.raised, value |-> None, file |-> file, events |-> tried]
                 ELSE IF \E k \in 1..Len(new.value) : In(new.value[k], file.columns)
                 THEN \* DataFrame.join: columns overlap but no suffix specified
                      [raised |-> "ValueError", value |-> None, file |-> file, events |-> tried]
                 ELSE IF outcomes[1].kind = "write_error"
                 THEN [raised |-> "OSError", value |-> None, file |-> file, events |-> tried]
                 ELSE [raised |-> "", value |-> Some(file.columns \o new.value),
                       file |-> FileWith(file.columns \o new.value),
                       events |-> Append(tried, Event("to_csv", file.columns \o new.value))]

\* download_all(retries=3)
DefaultRetries == 3

\* extract_data: the cache is updated or created, then df[self.tickers_list]
\* selects the requested columns in the requested order (KeyError when one
\* is not there)
extract_data(tickers_list, file, outcomes) ==
    LET got == IF file.exists THEN read_and_update_csv(tickers_list, file, outcomes)
               ELSE download_all(tickers_list, file, DefaultRetries, outcomes)
    IN  IF got.raised # "" THEN got
        ELSE IF got.value = None THEN [got EXCEPT !.raised = "TypeError"]
        ELSE IF \E k \in 1..Len(tickers_list) : ~In(tickers_list[k], got.value[1])
        THEN [got EXCEPT !.raised = "KeyError", !.value = None]
        ELSE [got EXCEPT !.value = Some(tickers_list)]

----------------------------------------------------------------------------
(* The requests the model makes.                                           *)

MaxPoints == 3       \* efficient_frontier(points) ranges over 0..MaxPoints
MaxHorizon == 2      \* horizon_years ranges over 0..MaxHorizon
MaxSims == 2         \* n_sims ranges over 0..MaxSims
MaxDraws == 4        \* horizon_years * n_sims is at most MaxDraws

\* (mu, cov) pairs: none, the fixture of tests/test_simulation.py, equal
\* returns with a zero covariance, and a covariance that is not positive
\* semi-definite
Universes ==
    { [mu |-> <<>>, cov |-> <<>>],
      [mu |-> <<R(3, 25), R(2, 25)>>,
       cov |-> << <<R(1, 25), R(1, 100)>>, <<R(1, 100), R(3, 100)>> >>],
      [mu |-> <<R(1, 10), R(1, 10)>>,
       cov |-> << <<Zero, Zero>>, <<Zero, Zero>> >>],
      [mu |-> <<R(-1, 10), R(-1, 10)>>,
       cov |-> << <<R(1, 25), R(-1, 20)>>, <<R(-1, 20), R(1, 25)>> >>] }

BoundsChoices == { DefaultBounds, NoBounds }

\* the default of annualized_inputs(periods)
TradingDays == 252

\* return tables of two assets with 0, 1, 2 and 3 observations
Observations ==
    << <<R(1, 100), R(1, 50)>>, <<R(3, 100), Zero>>, <<R(-1, 100), R(1, 100)>> >>

ReturnTables == { [columns |-> 2, rows |-> SubSeq(Observations, 1, t)] : t \in 0..3 }

PeriodChoices == { TradingDays, 12 }

\* weight vectors handed to the metrics (two assets): uniform, one asset, none
MetricWeights == { <<R(1, 2), R(1, 2)>>, <<One, Zero>>, <<Zero, Zero>> }

RiskFreeRates == { Zero, R(1, 10) }

RawWeights ==
    { <<>>, <<Zero, Zero, Zero>>, <<R(1, 5), R(1, 2), R(3, 10)>>, <<R(2, 1), R(6, 1)>>,
      <<R(-1, 1), R(3, 1)>>, <<One, R(-1, 1)>>,
      <<R(1, 1000000000), Zero>>, <<One, R(-999999999, 1000000000)>> }

\* the planner fixture of tests/test_simulation.py
Assets == <<"PETR4.SA", "TAEE11.SA">>
ExpectedReturns == [index |-> Assets, values |-> <<R(3, 25), R(2, 25)>>]
Covariance == << <<R(1, 25), R(1, 100)>>, <<R(1, 100), R(3, 100)>> >>

WeightInputs ==
    { [kind |-> "Series", index |-> Assets, values |-> <<R(11, 20), R(9, 20)>>],
      [kind |-> "Series", index |-> <<"TAEE11.SA", "PETR4.SA">>, values |-> <<R(9, 1), R(11, 1)>>],
      [kind |-> "Series", index |-> <<"PETR4.SA">>, values |-> <<One>>],
      [kind |-> "Series", index |-> <<"PETR4.SA", "TAEE11.SA", "BBSE3.SA">>,
       values |-> <<R(11, 20), R(9, 20), One>>],
      [kind |-> "array", index |-> <<>>, values |-> <<R(11, 20), R(9, 20)>>],
      [kind |-> "array", index |-> <<>>, values |-> <<One>>],
      [kind |-> "array", index |-> <<>>, values |-> <<One, R(-1, 1)>>],
      [kind |-> "array", index |-> <<>>, values |-> <<R(1, 1000000000), Zero>>] }

Inflations == { Zero, R(1, 4), R(-1, 1), R(-2, 1) }

\* the joint asset returns a draw may give: a crash below the floor, a gain
SampleSeq == << <<R(-3, 2), R(-3, 2)>>, <<R(1, 2), Zero>> >>

\* a seeded generator is a fixed function of its seed
Stream(seed, horizon_years, n_sims) ==
    [y \in 1..horizon_years |->
        [s \in 1..n_sims |->
            SampleSeq[((seed + ((y - 1) * n_sims + s) * ((y - 1) * n_sims + s))
                       % Len(SampleSeq)) + 1]]]

\* np.random.default_rng(rng_seed) and rng.multivariate_normal(size=(years, sims)):
\* any draws when unseeded, the seed's draws otherwise
Draws(rng_seed, horizon_years, n_sims) ==
    IF rng_seed = None
    THEN [1..horizon_years -> [1..n_sims -> {SampleSeq[k] : k \in 1..Len(SampleSeq)}]]
    ELSE { Stream(rng_seed[1], horizon_years, n_sims) }

RngSeeds == { None, Some(7) }
Wealths == { R(-1, 1), Zero, R(100, 1) }
Contributions == { R(-1, 1), Zero, R(10, 1) }
Growths == { None, Some(R(1, 10)), Some(R(-1, 1)), Some(R(-2, 1)) }
\* (initial_wealth, annual_contribution) of the run_simulation requests
RunFunds == { <<R(-1, 1), R(10, 1)>>, <<R(100, 1), R(10, 1)>>, <<Zero, Zero>> }
CurrentAges == { 40 }
Incomes == { Zero, R(5, 1), R(120000, 1) }
WithdrawalRates == { Zero, R(1, 25) }

NoOut ==
    [raised |-> "", value |-> <<>>, assigned |-> <<>>, drawn |-> <<>>,
     sampled |-> FALSE, invoked |-> FALSE]

----------------------------------------------------------------------------
(* PortfolioAnalytics: each call is one step; Forget drops its result.     *)

InitPortfolio ==
    /\ optOp = ""
    /\ optArgs = <<>>
    /\ solverLog = <<>>
    /\ optOut = Ok(<<>>)
    /\ planner = NoPlanner
    /\ simOp = ""
    /\ simArgs = <<>>
    /\ simOut = NoOut
    /\ cache = NoFile
    /\ extOp = ""
    /\ extArgs = <<>>
    /\ extOut = NoCall

CallNormalizeWeights ==
    /\ optOp = ""
    /\ \E w \in RawWeights :
        /\ optOp' = "normalize_weights"
        /\ optArgs' = [weights |-> w]
        /\ solverLog' = <<>>
        /\ optOut' = normalize_weights(w)
    /\ UNCHANGED simVars
    /\ UNCHANGED extVars

CallAnnualizedInputs ==
    /\ optOp = ""
    /\ \E returns \in ReturnTables, periods \in PeriodChoices :
        /\ optOp' = "annualized_inputs"
        /\ optArgs' = [returns |-> returns, periods |-> periods]
        /\ solverLog' = <<>>
        /\ optOut' = annualized_inputs(returns, periods)
    /\ UNCHANGED simVars
    /\ UNCHANGED extVars

CallPortfolioVolatility ==
    /\ optOp = ""
    /\ \E u \in {v \in Universes : Len(v.mu) > 0}, w \in MetricWeights :
        /\ optOp' = "portfolio_volatility"
        /\ optArgs' = [weights |-> w, cov |-> u.cov]
        /\ solverLog' = <<>>
        /\ optOut' = Ok(portfolio_volatility(w, u.cov))
    /\ UNCHANGED simVars
    /\ UNCHANGED extVars

CallPortfolioSharpe ==
    /\ optOp = ""
    /\ \E u \in {v \in Universes : Len(v.mu) > 0}, w \in MetricWeights,
          rf \in RiskFreeRates :
        /\ optOp' = "portfolio_sharpe"
        /\ optArgs' = [weights |-> w, mu |-> u.mu, cov |-> u.cov, rf |-> rf]
        /\ solverLog' = <<>>
        /\ optOut' = portfolio_sharpe(w, u.mu, u.cov, rf)
    /\ UNCHANGED simVars
    /\ UNCHANGED extVars

CallOptimizeMaxSharpe ==
    /\ optOp = ""
    /\ \E u \in Universes, b \in BoundsChoices :
        \E log \in SolverRuns(u.mu, b, 1) :
            /\ optOp' = "optimize_max_sharpe"
            /\ optArgs' = [mu |-> u.mu, cov |-> u.cov, rf |-> Zero, bounds |-> b]
            /\ solverLog' = log
            /\ optOut' = optimize_max_sharpe(u.mu, u.cov, Zero, b, log)
    /\ UNCHANGED simVars
    /\ UNCHANGED extVars

CallOptimizeMinVol ==
    /\ optOp = ""
    /\ \E u \in Universes, b \in BoundsChoices :
        \E log \in SolverRuns(u.mu, b, 1) :
            /\ optOp' = "optimize_min_vol"
            /\ optArgs' = [mu |-> u.mu, cov |-> u.cov, bounds |-> b]
            /\ solverLog' = log
            /\ optOut' = optimize_min_vol(u.mu, u.cov, b, log)
    /\ UNCHANGED simVars
    /\ UNCHANGED extVars

CallEfficientFrontier ==
    /\ optOp = ""
    /\ \E u \in Universes, b \in BoundsChoices, points \in 0..MaxPoints :
        \E log \in SolverRuns(u.mu, b, points) :
            /\ optOp' = "efficient_frontier"
            /\ optArgs' = [mu |-> u.mu, cov |-> u.cov, points |-> points, bounds |-> b]
            /\ solverLog' = [i \in 1..Len(log) |->
                                [success |-> log[i].success, x |-> log[i].x,
                                 target |-> frontier_targets(u.mu, points)[i]]]
            /\ optOut' \in efficient_frontier(u.mu, u.cov, points, b, log)
    /\ UNCHANGED simVars
    /\ UNCHANGED extVars

ForgetPortfolio ==
    /\ optOp # ""
    /\ optOp' = ""
    /\ optArgs' = <<>>
    /\ solverLog' = <<>>
    /\ optOut' = Ok(<<>>)
    /\ UNCHANGED simVars
    /\ UNCHANGED extVars

NextPortfolio ==
    \/ CallNormalizeWeights
    \/ CallAnnualizedInputs
    \/ CallPortfolioVolatility
    \/ CallPortfolioSharpe
    \/ CallOptimizeMaxSharpe
    \/ CallOptimizeMinVol
    \/ CallEfficientFrontier
    \/ ForgetPortfolio

SpecPortfolio == InitPortfolio /\ [][NextPortfolio]_vars

----------------------------------------------------------------------------
(* MonteCarloPlanner: construction, then calls on the one planner.         *)

InitPlanner == InitPortfolio

Construct ==
    /\ simOp = ""
    /\ ~planner.constructed
    /\ \E w \in WeightInputs, inflation \in Inflations :
        LET r == planner_init(ExpectedReturns, Covariance, w, inflation)
        IN  /\ simOp' = "__init__"
            /\ simArgs' = [weights |-> w, inflation |-> inflation]
            /\ simOut' = [NoOut EXCEPT !.raised = r.raised,
                                       !.value = IF r.raised = "" THEN <<>> ELSE r.value]
            /\ planner' = IF r.raised = "" THEN r.value ELSE planner
    /\ UNCHANGED optVars
    /\ UNCHANGED extVars

CallSimulateWealthPaths ==
    /\ simOp = ""
    /\ planner.constructed
    /\ \E iw \in Wealths, ac \in Contributions, h \in 0..MaxHorizon, n \in 0..MaxSims,
          cg \in Growths, seed \in RngSeeds :
        /\ h * n <= MaxDraws
        /\ \E ar \in IF sim_invalid(iw, ac, h, n) THEN { <<>> } ELSE Draws(seed, h, n) :
            /\ simOp' = "simulate_wealth_paths"
            /\ simArgs' = [initial_wealth |-> iw, annual_contribution |-> ac,
                           horizon_years |-> h, n_sims |-> n,
                           contribution_growth |-> cg, rng_seed |-> seed]
            /\ simOut' = simulate_wealth_paths(planner, iw, ac, h, n, cg, ar)
    /\ UNCHANGED planner
    /\ UNCHANGED optVars
    /\ UNCHANGED extVars

CallRunSimulation ==
    /\ simOp = ""
    /\ planner.constructed
    /\ \E cur \in CurrentAges, h \in 0..MaxHorizon, funds \in RunFunds,
          income \in Incomes, wr \in WithdrawalRates,
          inflation \in { None } \cup { Some(i) : i \in Inflations },
          n \in 1..MaxSims, seed \in RngSeeds :
        /\ h * n <= MaxDraws
        /\ \E ar \in IF run_invalid(cur, cur + h, wr) \/ sim_invalid(funds[1], funds[2], h, n)
                  THEN { <<>> } ELSE Draws(seed, h, n) :
            LET r == run_simulation(planner, cur, cur + h, funds[1], funds[2], income, wr,
                                    inflation, n, None, ar)
            IN  /\ simOp' = "run_simulation"
                /\ simArgs' = [current_age |-> cur, retirement_age |-> cur + h,
                               initial_wealth |-> funds[1], annual_contribution |-> funds[2],
                               desired_retirement_income |-> income,
                               withdrawal_rate |-> wr, inflation |-> inflation,
                               n_sims |-> n, contribution_growth |-> None,
                               rng_seed |-> seed]
                /\ simOut' = r.out
                /\ planner' = r.self
    /\ UNCHANGED optVars
    /\ UNCHANGED extVars

ForgetPlanner ==
    /\ simOp # ""
    /\ simOp' = ""
    /\ simArgs' = <<>>
    /\ simOut' = NoOut
    /\ UNCHANGED planner
    /\ UNCHANGED optVars
    /\ UNCHANGED extVars

NextPlanner ==
    \/ Construct
    \/ CallSimulateWealthPaths
    \/ CallRunSimulation
    \/ ForgetPlanner

SpecPlanner == InitPlanner /\ [][NextPlanner]_vars

----------------------------------------------------------------------------
(* The specification of the data extraction: the cache file starts absent  *)
(* and is created and extended by the calls.                               *)

MaxTickers == 2
MaxRetries == 2
Tickers == { "PETR4.SA", "TAEE11.SA", "BBSE3.SA" }

\* the requested lists: not empty, no ticker twice
TickerLists ==
    { t \in UNION { [1..n -> Tickers] : n \in 1..MaxTickers } :
        \A j, k \in 1..Len(t) : j # k => t[j] # t[k] }

\* what one attempt meets: the download fails, the write fails, or both work
AttemptKinds == { "download_error", "write_error", "ok" }

\* the outcomes of n attempts; the successful ones hold the columns cols
Outcomes(n, cols) ==
    { [k \in 1..n |-> [kind |-> kinds[k], columns |-> cols]] : kinds \in [1..n -> AttemptKinds] }

InitExtraction == InitPortfolio

CallDownloadAll ==
    /\ extOp = ""
    /\ \E tickers \in TickerLists, retries \in 0..MaxRetries :
       \E cols \in Downloaded(tickers) :
       \E outcomes \in Outcomes(retries, cols) :
          LET out == download_all(tickers, cache, retries, outcomes)
          IN  /\ extOp' = "download_all"
              /\ extArgs' = [tickers_list |-> tickers, retries |-> retries,
                             outcomes |-> outcomes, file |-> cache]
              /\ extOut' = [raised |-> out.raised, value |-> out.value, events |-> out.events]
              /\ cache' = out.file
    /\ UNCHANGED <<optVars, simVars>>

CallExtractData ==
    /\ extOp = ""
    /\ \E tickers \in TickerLists :
       \E cols \in Downloaded(IF cache.exists THEN missing_tickers(tickers, cache.columns)
                              ELSE tickers) :
       \E outcomes \in Outcomes(DefaultRetries, cols) :
          LET out == extract_data(tickers, cache, outcomes)
          IN  /\ extOp' = "extract_data"
              /\ extArgs' = [tickers_list |-> tickers, retries |-> DefaultRetries,
                             outcomes |-> outcomes, file |-> cache]
              /\ extOut' = [raised |-> out.raised, value |-> out.value, events |-> out.events]
              /\ cache' = out.file
    /\ UNCHANGED <<optVars, simVars>>

ForgetExtraction ==
    /\ extOp # ""
    /\ extOp' = ""
    /\ extArgs' = <<>>
    /\ extOut' = NoCall
    /\ UNCHANGED cache
    /\ UNCHANGED <<optVars, simVars>>

NextExtraction ==
    \/ CallDownloadAll
    \/ CallExtractData
    \/ ForgetExtraction

SpecExtraction == InitExtraction /\ [][NextExtraction]_vars

----------------------------------------------------------------------------
(* Claims about PortfolioAnalytics (checked under SpecPortfolio).          *)

Tolerance == R(1, 1000000)

Optimized == optOp \in {"optimize_max_sharpe", "optimize_min_vol"}
Frontier == optOp = "efficient_frontier"

\* the uniform vector, written out: every component 1/n
UniformVector(n) == [i \in 1..n |-> <<1, n>>]

\* how many entries of a sequence satisfy Test
CountWhere(seq, Test(_)) == Cardinality({i \in 1..Len(seq) : Test(seq[i])})

\* the weights sub-problem i is to contribute: its solution divided by its
\* sum, or the uniform vector when it did not converge
ExpectedWeights(i) ==
    IF solverLog[i].success
    THEN [k \in 1..Len(solverLog[i].x) |-> RDiv(solverLog[i].x[k], RSum(solverLog[i].x))]
    ELSE UniformVector(Len(optArgs.mu))

\* C1: when the solver reports non-convergence, optimize_max_sharpe,
\* optimize_min_vol and efficient_frontier do not raise, and the weights
\* reported for the failed solve are exactly the uniform vector (in the
\* frontier: one uniform row for each sub-problem that failed).
C1_FallbackIsUniform ==
    /\ (Optimized /\ solverLog # <<>> /\ ~solverLog[1].success) =>
            /\ optOut.raised = ""
            /\ optOut.value = UniformVector(Len(optArgs.mu))
    /\ (Frontier /\ \E i \in 1..Len(solverLog) : ~solverLog[i].success) =>
            /\ optOut.raised = ""
            /\ LET u == UniformVector(Len(optArgs.mu))
                   IsU(row) == row.weights = u
                   Failed(res) == ~res.success
               IN  CountWhere(optOut.value, IsU) >= CountWhere(solverLog, Failed)

C1_Witness ==
    /\ Frontier
    /\ optOut.raised = ""
    /\ \E i, j \in 1..Len(solverLog) : ~solverLog[i].success /\ solverLog[j].success
    /\ \E i \in 1..Len(optOut.value) : optOut.value[i].weights = UniformVector(2)

\* C2: for points = N >= 1 and whatever subset of the N sub-problems failed
\* to converge, efficient_frontier does not raise and returns exactly N rows:
\* one row of uniform weights per failed point, one row of its own solved
\* weights per other point.
C2_FrontierKeepsEveryPoint ==
    (Frontier /\ Len(optArgs.mu) >= 1 /\ optArgs.points >= 1) =>
        /\ optOut.raised = ""
        /\ Len(optOut.value) = optArgs.points
        /\ Len(solverLog) = optArgs.points
        /\ \A i \in 1..optArgs.points :
            Cardinality({r \in 1..Len(optOut.value) :
                            optOut.value[r].weights = ExpectedWeights(i)})
            = Cardinality({j \in 1..optArgs.points :
                            ExpectedWeights(j) = ExpectedWeights(i)})

C2_Witness ==
    /\ Frontier
    /\ optArgs.points >= 3
    /\ optOut.raised = ""
    /\ Len(optOut.value) = optArgs.points
    /\ ~solverLog[2].success
    /\ solverLog[1].success /\ solverLog[3].success
    /\ solverLog[1].x # solverLog[3].x

\* C3 as claimed: the Volatility column of the frontier table is strictly
\* ascending (each row's volatility strictly below the next row's).
C3_StrictlyAscending ==
    (Frontier /\ optOut.raised = "") =>
        \A i \in 1..(Len(optOut.value) - 1) :
            SqrtLt(optOut.value[i].Volatility, optOut.value[i + 1].Volatility)

\* C3 (amended): the Volatility column of the frontier table is ascending,
\* not strictly: each row's volatility is less than or equal to the next
\* row's, rows of equal volatility (two fallback rows, for one) being
\* adjacent, and the rows whose volatility is NaN come last.
C3_Ascending ==
    (Frontier /\ optOut.raised = "") =>
        \A i \in 1..(Len(optOut.value) - 1) :
            LET a == optOut.value[i].Volatility
                b == optOut.value[i + 1].Volatility
            IN  \/ SqrtIsNaN(b)
                \/ ~SqrtIsNaN(a) /\ SqrtLe(a, b)

C3_Witness ==
    /\ Frontier
    /\ optOut.raised = ""
    /\ Len(optOut.value) >= 3
    /\ optOut.value # frontier_rows(optArgs.mu, optArgs.cov, optArgs.points, solverLog)
    /\ optOut.value[1].Volatility = optOut.value[2].Volatility
    /\ SqrtLt(optOut.value[2].Volatility, optOut.value[3].Volatility)

\* C9 as claimed: for n >= 1 raw weights normalize_weights does not raise; it
\* returns the uniform vector when the raw sum is zero or negligible (close
\* to zero as np.isclose has it) and every weight divided by the sum
\* otherwise; the result sums to 1 within 1e-6.
C9_NormalizeWeights ==
    (optOp = "normalize_weights" /\ Len(optArgs.weights) >= 1) =>
        LET w == optArgs.weights
            s == RSum(w)
        IN  /\ optOut.raised = ""
            /\ optOut.value = IF isclose_zero(s) THEN UniformVector(Len(w))
                              ELSE [i \in 1..Len(w) |-> RDiv(w[i], s)]
            /\ RLe(RAbs(RSub(RSum(optOut.value), One)), Tolerance)

InUnitInterval(w) ==
    /\ RLe(RAbs(RSub(RSum(w), One)), Tolerance)
    /\ \A i \in 1..Len(w) : RLe(Zero, w[i]) /\ RLe(w[i], One)

\* C10: under the default bounds (0, 1) every weight vector reported by
\* optimize_max_sharpe, by optimize_min_vol and in each row of
\* efficient_frontier sums to 1 within 1e-6 and has every component in
\* [0, 1], after a converged solve as after the uniform fallback.
C10_WeightsNormalized ==
    /\ (Optimized /\ optArgs.bounds = DefaultBounds /\ optOut.raised = "") =>
            InUnitInterval(optOut.value)
    /\ (Frontier /\ optArgs.bounds = DefaultBounds /\ optOut.raised = "") =>
            \A r \in 1..Len(optOut.value) : InUnitInterval(optOut.value[r].weights)

C10_Witness ==
    /\ optOp = "optimize_max_sharpe"
    /\ optArgs.bounds = DefaultBounds
    /\ optOut.raised = ""
    /\ solverLog[1].success
    /\ RSum(solverLog[1].x) # One
    /\ optOut.value # solverLog[1].x

\* C13 as claimed: a fallback is observable.  All that an optimizer operation
\* produces is the value it returns (no flag is set, nothing is logged), so
\* the claim says: the weights (the frontier row) returned for a sub-problem
\* that did not converge differ from everything a converged solve of that
\* sub-problem can return.
C13_FallbackObservable ==
    LET x0 == Uniform(Len(optArgs.mu))
        Converged == {res \in minimize(x0, optArgs.bounds) : res.success}
    IN  /\ (Optimized /\ solverLog # <<>> /\ ~solverLog[1].success) =>
                \A res \in Converged : solved_weights(x0, res) # optOut
        /\ (Frontier /\ optOut.raised = "") =>
                \A i \in 1..Len(solverLog) : \A r \in 1..Len(optOut.value) :
                    (~solverLog[i].success /\ optOut.value[r].weights = ExpectedWeights(i)) =>
                        \A res \in Converged :
                            frontier_row(solved_weights(x0, res).value,
                                         optArgs.mu, optArgs.cov) # optOut.value[r]

\* C14 as claimed: called with an empty asset universe (mu of length 0),
\* optimize_max_sharpe, optimize_min_vol and efficient_frontier each fail
\* with InvalidInputError and with no other kind of failure.
C14_EmptyUniverseInvalidInput ==
    ((Optimized \/ Frontier) /\ Len(optArgs.mu) = 0) =>
        optOut.raised = "InvalidInputError"

\* C15 as claimed: annualized_inputs fails with InsufficientDataError when
\* the return table has fewer than 2 observations, instead of returning a
\* vector and a matrix; with 2 or more observations it returns mean * periods
\* and sample covariance * periods.
C15_InsufficientData ==
    optOp = "annualized_inputs" =>
        LET rows == optArgs.returns.rows
            T == Len(rows)
            p == R(optArgs.periods, 1)
            Col(j) == [i \in 1..T |-> rows[i][j]]
            Mean(j) == RDiv(RSum(Col(j)), R(T, 1))
        IN  /\ T < 2 => optOut.raised = "InsufficientDataError"
            /\ T >= 2 =>
                /\ optOut.raised = ""
                /\ \A j \in 1..optArgs.returns.columns :
                    /\ RMul(optOut.value.mu[j], R(T, 1)) = RMul(p, RSum(Col(j)))
                    /\ \A k \in 1..optArgs.returns.columns :
                        RMul(optOut.value.cov[j][k], R(T - 1, 1))
                        = RMul(p, RSum([i \in 1..T |->
                                          RMul(RSub(rows[i][j], Mean(j)),
                                               RSub(rows[i][k], Mean(k)))]))

\* C11 as claimed: portfolio_volatility returns a non-negative number for
\* every weight vector and covariance matrix; when w^T cov w is negative the
\* result is 0, never a negative or undefined (NaN) value.
C11_VolatilityNonNegative ==
    optOp = "portfolio_volatility" =>
        /\ optOut.raised = ""
        /\ ~SqrtIsNaN(optOut.value)
        /\ RLe(Zero, optOut.value.rad)
        /\ RLt(QuadForm(optArgs.weights, optArgs.cov), Zero) => optOut.value.rad = Zero

\* C12: portfolio_sharpe never raises; it returns exactly 0.0 when the
\* volatility of the weights is 0, and otherwise (portfolio_return - rf)
\* divided by the volatility (same sign as the excess return, square equal
\* to excess^2 / w^T cov w; NaN when the volatility is NaN).
C12_SharpeZeroVolatility ==
    optOp = "portfolio_sharpe" =>
        LET q == QuadForm(optArgs.weights, optArgs.cov)
            excess == RSub(Dot(optArgs.weights, optArgs.mu), optArgs.rf)
        IN  /\ optOut.raised = ""
            /\ q = Zero => optOut.value = [sgn |-> 0, sq |-> Zero]
            /\ RLt(Zero, q) =>
                    /\ optOut.value.sgn = Sgn(excess[1])
                    /\ RMul(optOut.value.sq, q) = RMul(excess, excess)
            /\ RLt(q, Zero) => IsNaN(optOut.value.sq)

C12_Witness ==
    /\ optOp = "portfolio_sharpe"
    /\ QuadForm(optArgs.weights, optArgs.cov) = Zero
    /\ Dot(optArgs.weights, optArgs.mu) # optArgs.rf
    /\ optOut = Ok([sgn |-> 0, sq |-> Zero])

\* a <= b for two Sharpe ratios (sign and square); false when either is NaN
SharpeLe(a, b) ==
    /\ ~IsNaN(a.sq) /\ ~IsNaN(b.sq)
    /\ IF a.sgn >= 0 /\ b.sgn >= 0 THEN RLe(a.sq, b.sq)
       ELSE IF a.sgn < 0 /\ b.sgn < 0 THEN RLe(b.sq, a.sq)
       ELSE a.sgn < b.sgn

\* C21 as claimed, in the case where the fallback was used: the volatility
\* of the weights optimize_min_vol returns is (a number and) less than or
\* equal to the volatility of the uniform weights for the same cov.  The
\* weights returned are then the uniform weights themselves, so the
\* tolerance of 1e-6 plays no part.
C21_MinVolNoWorseThanUniform ==
    (optOp = "optimize_min_vol" /\ optOut.raised = "" /\ ~solverLog[1].success) =>
        LET vol_optimized == portfolio_volatility(optOut.value, optArgs.cov)
            vol_equal == portfolio_volatility(UniformVector(Len(optArgs.mu)), optArgs.cov)
        IN  /\ ~SqrtIsNaN(vol_optimized) /\ ~SqrtIsNaN(vol_equal)
            /\ SqrtLe(vol_optimized, vol_equal)

\* C22 as claimed, in the case where the fallback was used: the Sharpe ratio
\* of the weights optimize_max_sharpe returns is (a number and) greater than
\* or equal to the Sharpe ratio of the uniform weights.  The weights returned
\* are then the uniform weights themselves, so the tolerance of 1e-6 plays no
\* part.
C22_MaxSharpeNoWorseThanUniform ==
    (optOp = "optimize_max_sharpe" /\ optOut.raised = "" /\ ~solverLog[1].success) =>
        LET sharpe_optimized ==
                portfolio_sharpe(optOut.value, optArgs.mu, optArgs.cov, optArgs.rf).value
            sharpe_equal ==
                portfolio_sharpe(UniformVector(Len(optArgs.mu)), optArgs.mu,
                                 optArgs.cov, optArgs.rf).value
        IN  SharpeLe(sharpe_equal, sharpe_optimized)

\* C23 as claimed: the N target returns swept by efficient_frontier are
\* evenly spaced from min(mu) to max(mu) inclusive; when all expected returns
\* are equal (spread below 1e-9) the lowest target is strictly below and the
\* highest strictly above the common expected return, whatever its value.
C23_TargetsSpanExpectedReturns ==
    (Frontier /\ optOut.raised = "" /\ optArgs.points >= 2) =>
        LET N == optArgs.points
            lowest == solverLog[1].target
            highest == solverLog[N].target
            spread == RAbs(RSub(SeqMax(optArgs.mu), SeqMin(optArgs.mu)))
        IN  /\ \A i \in 1..(N - 2) :
                    RSub(solverLog[i + 1].target, solverLog[i].target)
                    = RSub(solverLog[i + 2].target, solverLog[i + 1].target)
            /\ ~RLt(spread, <<1, 1000000000>>) =>
                    lowest = SeqMin(optArgs.mu) /\ highest = SeqMax(optArgs.mu)
            /\ RLt(spread, <<1, 1000000000>>) =>
                    RLt(lowest, SeqMin(optArgs.mu)) /\ RLt(SeqMax(optArgs.mu), highest)

\* the rows of the frontier in the order the loop produced them
Produced == frontier_rows(optArgs.mu, optArgs.cov, optArgs.points, solverLog)

\* the rows, had the sub-problems completed in the order p
ProducedIn(p) == [i \in 1..Len(Produced) |-> Produced[p[i]]]

----------------------------------------------------------------------------
(* Claims about MonteCarloPlanner (checked under SpecPlanner).             *)

Simulated == simOp = "simulate_wealth_paths"
Ran == simOp = "run_simulation"

\* the horizon of the call
Horizon ==
    IF Ran THEN simArgs.retirement_age - simArgs.current_age ELSE simArgs.horizon_years

\* C4 as claimed: an accepted simulate_wealth_paths call with horizon H > 0
\* and S > 0 simulations returns S rows of H+1 columns, column 0 equal to
\* initial_wealth and every entry >= 0, whatever the draws, the inflation and
\* the contribution growth.
C4_ShapeAndNonNegative ==
    (Simulated /\ simArgs.horizon_years > 0 /\ simArgs.n_sims > 0
        /\ RGe(simArgs.initial_wealth, Zero) /\ RGe(simArgs.annual_contribution, Zero)) =>
        /\ simOut.raised = ""
        /\ Len(simOut.value) = simArgs.n_sims
        /\ \A s \in 1..Len(simOut.value) :
            /\ Len(simOut.value[s]) = simArgs.horizon_years + 1
            /\ simOut.value[s][1] = simArgs.initial_wealth
            /\ \A c \in 1..Len(simOut.value[s]) : RGe(simOut.value[s][c], Zero)

\* the contribution of year y (0-based), as the claim writes it
ContributionOfYear(y) ==
    LET g == IF simArgs.contribution_growth = None THEN Zero
             ELSE simArgs.contribution_growth[1]
    IN  RMul(simArgs.annual_contribution, RPow(RAdd(One, g), y))

\* the real return of year y (0-based) on path s, as the claim writes it
RealReturn(y, s) ==
    LET nominal == Dot(simOut.drawn[y + 1][s], planner.weights)
        floored == IF RLt(nominal, <<-99, 100>>) THEN <<-99, 100>> ELSE nominal
    IN  RSub(RDiv(RAdd(One, floored), RAdd(One, planner.inflation)), One)

\* C5: on every path, wealth[0] = initial_wealth and for every year y the
\* loop sets wealth[y+1] = (max(wealth[y], 0) + contribution[y]) * (1 +
\* realReturn[y]), contribution[y] = annual_contribution * (1 + growth)^y
\* (growth 0 when not supplied): the contribution is added before the
\* year's return is applied and the first one is not grown.
C5_Accumulation ==
    ((Simulated \/ Ran) /\ simOut.raised = "") =>
        \A s \in 1..Len(simOut.assigned) :
            /\ simOut.assigned[s][1] = simArgs.initial_wealth
            /\ \A y \in 0..(Horizon - 1) :
                simOut.assigned[s][y + 2] =
                    RMul(RAdd(RMax(simOut.assigned[s][y + 1], Zero), ContributionOfYear(y)),
                         RAdd(One, RealReturn(y, s)))

C5_Witness ==
    /\ Simulated
    /\ simOut.raised = ""
    /\ simArgs.horizon_years >= 2
    /\ simArgs.contribution_growth = Some(R(1, 10))
    /\ simArgs.annual_contribution = R(10, 1)
    /\ simOut.assigned[1][3] = RMul(RAdd(simOut.assigned[1][2], R(11, 1)),
                                    RAdd(One, RealReturn(1, 1)))

\* C6 as claimed: no call changes the planner: after construction its
\* weights, expected returns, covariance and inflation stay as they were.
C6_PlannerImmutable == [][planner.constructed => planner' = planner]_vars

\* C7: simulate_wealth_paths with horizon_years <= 0, initial_wealth < 0,
\* annual_contribution < 0 or n_sims <= 0 raises a parameter error before
\* the generator is created and before any return is drawn, and produces no
\* wealth matrix, not even a partial one.
C7_InvalidArgumentsRaiseFirst ==
    (Simulated /\ (\/ simArgs.horizon_years <= 0
                   \/ RLt(simArgs.initial_wealth, Zero)
                   \/ RLt(simArgs.annual_contribution, Zero)
                   \/ simArgs.n_sims <= 0)) =>
        /\ simOut.raised = "ValueError"
        /\ ~simOut.sampled
        /\ simOut.drawn = <<>>
        /\ simOut.value = <<>>
        /\ simOut.assigned = <<>>

C7_Witness ==
    /\ Simulated
    /\ simArgs.n_sims = 0
    /\ simArgs.horizon_years > 0
    /\ RGe(simArgs.initial_wealth, Zero)
    /\ RGe(simArgs.annual_contribution, Zero)
    /\ simOut.raised = "ValueError"
    /\ ~simOut.sampled

\* C8: run_simulation raises a parameter error whenever retirement_age <=
\* current_age or withdrawal_rate <= 0, before the simulator is invoked: no
\* sampling happens for such a request.
C8_RunRejectsBeforeSimulating ==
    (Ran /\ (\/ simArgs.retirement_age <= simArgs.current_age
             \/ RLe(simArgs.withdrawal_rate, Zero))) =>
        /\ simOut.raised = "ValueError"
        /\ ~simOut.invoked
        /\ ~simOut.sampled
        /\ simOut.value = <<>>

C8_Witness ==
    /\ Ran
    /\ simArgs.retirement_age > simArgs.current_age
    /\ simArgs.withdrawal_rate = Zero
    /\ RGe(simArgs.initial_wealth, Zero)
    /\ simOut.raised = "ValueError"
    /\ ~simOut.invoked

\* the matrix a planner in state self returns for a seeded call
SeededMatrix(self, iw, ac, h, n, cg, seed) ==
    simulate_wealth_paths(self, iw, ac, h, n, cg, Stream(seed, h, n)).value

\* C16 as claimed: the matrix returned for given arguments and a given
\* non-null seed is a function of the arguments and the seed only: a seeded
\* call returns the matrix of that function, and the function is the same
\* after every step as before it, so that two invocations of one planner with
\* the same arguments and seed, whenever made, return identical matrices.
C16_SeededDeterminism ==
    [][(planner.constructed /\ planner'.constructed) =>
        /\ (simOp' = "simulate_wealth_paths" /\ simOut'.raised = ""
               /\ simArgs'.rng_seed # None) =>
                simOut'.value =
                    SeededMatrix(planner, simArgs'.initial_wealth,
                                 simArgs'.annual_contribution, simArgs'.horizon_years,
                                 simArgs'.n_sims, simArgs'.contribution_growth,
                                 simArgs'.rng_seed[1])
        /\ \A h \in 1..MaxHorizon, n \in 1..MaxSims, seed \in RngSeeds \ { None } :
                SeededMatrix(planner', R(100, 1), R(10, 1), h, n, None, seed[1])
                = SeededMatrix(planner, R(100, 1), R(10, 1), h, n, None, seed[1])]_vars

\* the terminal wealth of path s in the result of run_simulation
Terminal(s) == simOut.value.wealth_paths[s][Len(simOut.value.wealth_paths[s])]

\* C17: run_simulation reports target_wealth = desired_retirement_income /
\* withdrawal_rate (3,000,000 for 120000 and 0.04) and probability_success =
\* the fraction of the simulated paths whose terminal wealth is >=
\* target_wealth, 1.0 when target_wealth <= 0; it lies in [0, 1].
C17_TargetAndProbability ==
    (Ran /\ simOut.raised = "") =>
        LET target == simOut.value.target_wealth
            prob == simOut.value.probability_success
            S == Len(simOut.value.wealth_paths)
            hits == Cardinality({s \in 1..S : RGe(Terminal(s), target)})
        IN  /\ RMul(target, simArgs.withdrawal_rate) = simArgs.desired_retirement_income
            /\ (simArgs.desired_retirement_income = <<120000, 1>>
                    /\ simArgs.withdrawal_rate = <<1, 25>>) => target = <<3000000, 1>>
            /\ S = simArgs.n_sims
            /\ RLe(target, Zero) => prob = One
            /\ RLt(Zero, target) => RMul(prob, <<S, 1>>) = <<hits, 1>>
            /\ RLe(Zero, prob) /\ RLe(prob, One)

C17_Witness ==
    /\ Ran
    /\ simOut.raised = ""
    /\ simArgs.n_sims = 2
    /\ RLt(Zero, simOut.value.target_wealth)
    /\ RGe(Terminal(1), simOut.value.target_wealth)
    /\ RLt(Terminal(2), simOut.value.target_wealth)
    /\ simOut.value.probability_success = <<1, 2>>

\* C18: for every accepted request the ages of the result are the
\* consecutive integers current_age, ..., retirement_age; their count is
\* horizon_years + 1 = retirement_age - current_age + 1, the number of
\* columns of wealth_paths; the percentile table has one row per age, is
\* indexed by those ages in order and has the columns p10, p25, p50, p75, p90.
C18_AgeAxis ==
    (Ran /\ simArgs.retirement_age > simArgs.current_age
         /\ RLt(Zero, simArgs.withdrawal_rate)
         /\ RGe(simArgs.initial_wealth, Zero) /\ RGe(simArgs.annual_contribution, Zero)
         /\ simArgs.n_sims > 0) =>
        /\ simOut.raised = ""
        /\ LET ages == simOut.value.ages
                table == simOut.value.percentiles
                count == simArgs.retirement_age - simArgs.current_age + 1
            IN  /\ Len(ages) = count
                /\ \A i \in 1..count : ages[i] = simArgs.current_age + i - 1
                /\ ages[count] = simArgs.retirement_age
                /\ \A s \in 1..Len(simOut.value.wealth_paths) :
                        Len(simOut.value.wealth_paths[s]) = count
                /\ table.index = ages
                /\ Len(table.data) = count
                /\ table.columns = <<"p10", "p25", "p50", "p75", "p90">>
                /\ \A r \in 1..count : Len(table.data[r]) = 5

C18_Witness ==
    /\ Ran
    /\ simOut.raised = ""
    /\ simArgs.retirement_age = simArgs.current_age + 2
    /\ simOut.value.ages = <<40, 41, 42>>
    /\ simOut.value.percentiles.index = <<40, 41, 42>>
    /\ Len(simOut.value.percentiles.data) = 3

\* the assets on which weights and expected_returns disagree: assets without
\* a weight and weight labels that are no asset (label-indexed weights)
Offending(weights) ==
    {Assets[i] : i \in {j \in 1..Len(Assets) :
                          \A k \in 1..Len(weights.index) : weights.index[k] # Assets[j]}}
    \cup {weights.index[k] : k \in {j \in 1..Len(weights.index) :
                                      \A i \in 1..Len(Assets) : Assets[i] # weights.index[j]}}

\* weights that do not align one-to-one with the assets of expected_returns
Misaligned(weights) ==
    IF weights.kind = "Series" THEN Offending(weights) # {}
    ELSE Len(weights.values) # Len(Assets)

\* C19 as claimed: constructing a planner with weights that do not align
\* one-to-one with the assets fails, for label-indexed and positional weights
\* alike, with an error that names the offending assets, and no planner is
\* created.
C19_MisalignedWeightsRejected ==
    (simOp = "__init__" /\ Misaligned(simArgs.weights)) =>
        /\ simOut.raised # ""
        /\ simOut.value # <<>>
        /\ simArgs.weights.kind = "Series" =>
                {simOut.value[i] : i \in 1..Len(simOut.value)} = Offending(simArgs.weights)
        /\ ~planner.constructed

\* what year y (0-based) of path s starts from: the wealth carried over,
\* clamped at zero, plus the year's contribution
YearBase(s, y) == RAdd(RMax(simOut.assigned[s][y + 1], Zero), ContributionOfYear(y))

\* the least growth factor the floor of -0.99 allows: 0.01 / (1 + inflation)
FloorFactor == RDiv(<<1, 100>>, RAdd(One, planner.inflation))

\* C20: the portfolio return of every year is floored at -0.99 before it is
\* converted to a real return, so for every draw and every inflation > -1
\* the yearly growth factor is strictly positive and at least
\* 0.01 / (1 + inflation): a year that starts from a positive amount ends
\* with a positive amount, at least that amount times 0.01 / (1 + inflation).
C20_FlooredGrowth ==
    ((Simulated \/ Ran) /\ simOut.raised = "" /\ RLt(<<-1, 1>>, planner.inflation)) =>
        \A s \in 1..Len(simOut.assigned) : \A y \in 0..(Horizon - 1) :
            RLt(Zero, YearBase(s, y)) =>
                /\ RLt(Zero, simOut.assigned[s][y + 2])
                /\ RGe(simOut.assigned[s][y + 2], RMul(YearBase(s, y), FloorFactor))

C20_Witness ==
    /\ Simulated
    /\ simOut.raised = ""
    /\ planner.inflation = <<1, 4>>
    /\ simArgs.horizon_years = 2
    /\ RLt(Dot(simOut.drawn[2][1], planner.weights), <<-99, 100>>)
    /\ RLt(Zero, YearBase(1, 1))
    /\ simOut.assigned[1][3] = RMul(YearBase(1, 1), <<1, 125>>)

\* the weights supplied for the assets, in asset order (aligned weights only)
Supplied(weights) ==
    IF weights.kind = "array" THEN weights.values
    ELSE [i \in 1..Len(Assets) |->
            weights.values[CHOOSE k \in 1..Len(weights.index) : weights.index[k] = Assets[i]]]

\* weights that give every asset a weight (and, positional, nothing more)
Complete(weights) ==
    IF weights.kind = "array" THEN Len(weights.values) = Len(Assets)
    ELSE \A i \in 1..Len(Assets) : \E k \in 1..Len(weights.index) : weights.index[k] = Assets[i]

\* C25: after every successful construction the stored weights sum to 1, and
\* are each >= 0 whenever the supplied weights were each >= 0; supplied
\* weights whose sum is approximately zero (within 1e-8) make construction
\* fail with an error, and are not replaced by uniform weights.
C25_ConstructorNormalizes ==
    simOp = "__init__" =>
        /\ simOut.raised = "" =>
            /\ planner.constructed
            /\ RSum(planner.weights) = One
            /\ (\A k \in 1..Len(simArgs.weights.values) :
                    RGe(simArgs.weights.values[k], Zero))
                => \A i \in 1..Len(planner.weights) : RGe(planner.weights[i], Zero)
            /\ \A i \in 1..Len(planner.weights) :
                    RMul(planner.weights[i], RSum(Supplied(simArgs.weights)))
                    = Supplied(simArgs.weights)[i]
        /\ (Complete(simArgs.weights)
               /\ RLe(RAbs(RSum(Supplied(simArgs.weights))), <<1, 100000000>>)) =>
            /\ simOut.raised = "ValueError"
            /\ ~planner.constructed

C25_Witness ==
    /\ simOp = "__init__"
    /\ simOut.raised = ""
    /\ RSum(simArgs.weights.values) = <<20, 1>>
    /\ planner.weights = << <<11, 20>>, <<9, 20>> >>

\* the contribution growth of the call (0 when not supplied)
GrowthOfCall ==
    IF simArgs.contribution_growth = None THEN Zero ELSE simArgs.contribution_growth[1]

\* C26: for valid inputs (initial_wealth >= 0, annual_contribution >= 0,
\* contribution_growth >= -1, inflation > -1) every wealth value the
\* accumulation loop computes is already >= 0: neither the clamp inside the
\* loop nor the final clamp changes any value.
C26_ClampsAreIdle ==
    ((Simulated \/ Ran) /\ simOut.raised = ""
        /\ RGe(simArgs.initial_wealth, Zero) /\ RGe(simArgs.annual_contribution, Zero)
        /\ RGe(GrowthOfCall, <<-1, 1>>) /\ RLt(<<-1, 1>>, planner.inflation)) =>
        LET returned == IF Ran THEN simOut.value.wealth_paths ELSE simOut.value
        IN  \A s \in 1..Len(simOut.assigned) : \A c \in 1..Len(simOut.assigned[s]) :
                /\ RGe(simOut.assigned[s][c], Zero)
                /\ RMax(simOut.assigned[s][c], Zero) = simOut.assigned[s][c]
                /\ returned[s][c] = simOut.assigned[s][c]

C26_Witness ==
    /\ Simulated
    /\ simOut.raised = ""
    /\ GrowthOfCall = <<-1, 1>>
    /\ planner.inflation = <<1, 4>>
    /\ simArgs.horizon_years = 2
    /\ RLt(Dot(simOut.drawn[1][1], planner.weights), <<-99, 100>>)
    /\ RLt(Zero, simOut.assigned[1][2])
    /\ simOut.value[1] = simOut.assigned[1]

\* a sequence of floats in ascending order (false when an entry is NaN)
Ascending(v) == \A k \in 1..(Len(v) - 1) : RLe(v[k], v[k + 1])

\* C27 as claimed: in every row of the percentile table p10 <= p25 <= p50 <=
\* p75 <= p90, in the row of the current age all five equal initial_wealth;
\* in final_distribution p5 <= p10 <= p25 <= p50 <= p75 <= p90 <= p95, and
\* every value of it lies between the smallest and the largest terminal
\* wealth of the simulated paths.
C27_PercentilesOrdered ==
    (Ran /\ simOut.raised = "") =>
        LET table == simOut.value.percentiles
            final == simOut.value.final_distribution.values
            S == Len(simOut.value.wealth_paths)
        IN  /\ \A r \in 1..Len(table.data) : Ascending(table.data[r])
            /\ \A k \in 1..Len(table.data[1]) : table.data[1][k] = simArgs.initial_wealth
            /\ Ascending(final)
            /\ \A k \in 1..Len(final) :
                /\ \E s \in 1..S : RLe(Terminal(s), final[k])
                /\ \E s \in 1..S : RLe(final[k], Terminal(s))

----------------------------------------------------------------------------
(* Data extraction                                                         *)

\* the positions of the events of one kind
EventsOf(what) == { k \in 1..Len(extOut.events) : extOut.events[k].ev = what }

\* the first attempt that succeeds, 0 when none does
FirstOk ==
    LET oks == { k \in 1..Len(extArgs.outcomes) : extArgs.outcomes[k].kind = "ok" }
    IN  IF oks = {} THEN 0 ELSE CHOOSE k \in oks : \A j \in oks : k <= j

\* C28: download_all with retries = R >= 1 makes at most R download attempts
\* and stops at the first successful one, writing the CSV once and returning
\* the downloaded table; there is a wait between consecutive attempts and
\* none after the last; RuntimeError is raised exactly when all R attempts
\* failed, and the call never returns without a successful attempt or that
\* error.
C28_RetriesThenError ==
    (extOp = "download_all" /\ extArgs.retries >= 1) =>
        LET tries == extArgs.retries
            ev == extOut.events
            n == Cardinality(EventsOf("download"))
        IN  /\ n >= 1 /\ n <= tries
            /\ \A k \in 1..n : ev[2 * k - 1] = Event("download", extArgs.tickers_list)
            /\ \A k \in 1..(n - 1) : ev[2 * k].ev = "sleep"
            /\ Cardinality(EventsOf("sleep")) = n - 1
            /\ ev[Len(ev)].ev # "sleep"
            /\ extOut.raised \in { "", "RuntimeError" }
            /\ (extOut.raised = "RuntimeError") <=> (FirstOk = 0)
            /\ FirstOk = 0 =>
                /\ n = tries
                /\ EventsOf("to_csv") = {}
                /\ cache = extArgs.file
            /\ FirstOk # 0 =>
                /\ n = FirstOk
                /\ EventsOf("to_csv") = { Len(ev) }
                /\ Len(ev) = 2 * n
                /\ extOut.value = Some(extArgs.outcomes[FirstOk].columns)
                /\ ev[Len(ev)].tickers = extArgs.outcomes[FirstOk].columns
                /\ cache = FileWith(extArgs.outcomes[FirstOk].columns)

\* a failed attempt, a wait, then the attempt that succeeds
C28_Witness ==
    /\ extOp = "download_all"
    /\ extArgs.retries = 2
    /\ extArgs.outcomes[1].kind = "write_error"
    /\ extArgs.outcomes[2].kind = "ok"
    /\ extOut.raised = ""
    /\ Len(extOut.events) = 4
    /\ extOut.events[2].ev = "sleep"

\* the requested tickers the file did not hold when the call was made
Absent ==
    { extArgs.tickers_list[k] : k \in { j \in 1..Len(extArgs.tickers_list) :
        ~In(extArgs.tickers_list[j], extArgs.file.columns) } }

\* C29: extract_data with the cache file there downloads only the requested
\* tickers the cached columns lack, and rewrites the file only if there is
\* one (else nothing is downloaded and the file is left as it was); with no
\* file, every download asks for all the requested tickers, and the file is
\* created by the download that works; whenever the call succeeds the table
\* returned has exactly the requested tickers as columns in the requested
\* order, and the cache then holds a column for each.
C29_CacheThenDownload ==
    (extOp = "extract_data") =>
        LET ev == extOut.events
            t == extArgs.tickers_list
        IN  /\ extArgs.file.exists =>
                /\ \A k \in EventsOf("download") :
                     \A j \in 1..Len(ev[k].tickers) : ev[k].tickers[j] \in Absent
                /\ Absent = {} =>
                    /\ EventsOf("download") = {}
                    /\ EventsOf("to_csv") = {}
                    /\ cache = extArgs.file
                    /\ extOut.raised = ""
                /\ EventsOf("to_csv") # {} => Absent # {}
                /\ cache # extArgs.file => Absent # {}
            /\ ~extArgs.file.exists =>
                /\ EventsOf("download") # {}
                /\ \A k \in EventsOf("download") : ev[k].tickers = t
                /\ EventsOf("to_csv") # {} <=> cache.exists
                /\ FirstOk # 0 <=> cache.exists
            /\ extOut.raised = "" =>
                /\ extOut.value = Some(t)
                /\ cache.exists
                /\ \A k \in 1..Len(t) : In(t[k], cache.columns)

\* a file holding one of the two requested tickers: the other is downloaded,
\* the file rewritten with both, both returned in the requested order
C29_Witness ==
    /\ extOp = "extract_data"
    /\ extArgs.file.exists
    /\ Len(extArgs.tickers_list) = 2
    /\ Cardinality(Absent) = 1
    /\ extOut.raised = ""
    /\ EventsOf("download") # {}
    /\ EventsOf("to_csv") # {}
    /\ cache # extArgs.file
    /\ extOut.value = Some(extArgs.tickers_list)

====
